---- MODULE Spec2Model ----
(***************************************************************************)
(* Tabular reinforcement-learning agents (src/src/agents.py), the task     *)
(* driver RLTask (src/src/task.py) and the state fingerprint               *)
(* (src/src/minihack_envs.py).                                             *)
(*                                                                         *)
(* Python floats are modelled as exact rationals <<num, den>> in lowest    *)
(* terms with den > 0: every value the model computes from its small       *)
(* dyadic inputs is exact in IEEE doubles as well, except the thirds of    *)
(* _incremental_avg and of the running mean, where rounding is not         *)
(* modelled.  The defaultdict tables Q and state_action_count are total    *)
(* functions whose default entries hold 0.                                 *)
(***************************************************************************)
EXTENDS Integers, Sequences, FiniteSets, TLC

VARIABLES
    variant,              \* the agent's class
    learning,             \* AbstractAgent.learning
    alpha, gamma, epsilon,
    n,                    \* action_space.n
    max_episode_steps,
    num_planning_steps,
    Q,                    \* AbstractAgent.Q
    state_action_count,   \* AbstractAgent.state_action_count
    S, A, R,              \* the trajectory buffers
    model,                \* AbstractAgent.model
    act_call,             \* the locals of the last act call
    hook,                 \* the last agent method called, its argument and the agent before it
    pc,                   \* the driver's position
    num_episodes, k, t,   \* interact's argument and loop indices
    state,                \* the driver's current observation
    action,               \* the driver's current action
    steps,                \* env.step calls of the current episode
    step_end_calls,       \* the arguments of on_step_end in the current episode
    episode_end_calls,    \* the arguments of on_episode_end in the current interact call
    raw_rewards,          \* per episode of the current interact call, the rewards env.step returned
    episodic_returns,
    avg_returns,
    renders,              \* callback / render invocations of the current visualize_episode call
    done,                 \* the driver's done flag
    max_num_steps,        \* visualize_episode's argument
    episodes_run,         \* episodes started since the agent was constructed
    open_steps,           \* env.step calls so far that did not report done
    act_calls,            \* agent.act calls of the current episode
    interact_calls,       \* interact calls so far that ran at least one episode
    fn_call               \* the last direct call of a module-level function: arguments and result

agent_vars == <<variant, learning, alpha, gamma, epsilon, n, max_episode_steps,
                num_planning_steps, Q, state_action_count, S, A, R, model>>
driver_vars == <<pc, num_episodes, k, t, state, action, steps, step_end_calls,
                 episode_end_calls, raw_rewards, episodic_returns, avg_returns, renders,
                 done, max_num_steps, episodes_run, open_steps, act_calls, interact_calls, fn_call>>
vars == <<agent_vars, act_call, hook, driver_vars>>

----------------------------------------------------------------------------
(* Bounds *)

MaxActions == 2
MaxEpisodeSteps == 2
MaxEpisodes == 2
MaxPlanningSteps == 1
UniformGrid == 4
MaxBufferLen == 3
MaxOpenSteps == 2

----------------------------------------------------------------------------
(* float *)

Abs(x) == IF x < 0 THEN -x ELSE x

RECURSIVE GCD(_, _)
GCD(a, b) == IF b = 0 THEN a ELSE GCD(b, a % b)

Float(a, b) ==
    LET s == IF b < 0 THEN -1 ELSE 1
        g == GCD(Abs(a), Abs(b))
    IN  <<(s * a) \div g, (s * b) \div g>>

FloatOf(i) == <<i, 1>>

\* x + y and x - y over the least common denominator, x * y and x / y with the
\* common factors cancelled first, so that no intermediate product is larger than
\* the result needs.
FloatAdd(x, y) ==
    LET g == GCD(x[2], y[2])
    IN  Float(x[1] * (y[2] \div g) + y[1] * (x[2] \div g), (x[2] \div g) * y[2])
FloatNeg(x) == <<-x[1], x[2]>>
FloatSub(x, y) == FloatAdd(x, FloatNeg(y))
FloatMul(x, y) ==
    LET g1 == GCD(Abs(x[1]), y[2])
        g2 == GCD(Abs(y[1]), x[2])
    IN  Float((x[1] \div g1) * (y[1] \div g2), (x[2] \div g2) * (y[2] \div g1))
FloatDiv(x, y) == FloatMul(x, IF y[1] < 0 THEN <<-y[2], -y[1]>> ELSE <<y[2], y[1]>>)
FloatLeq(x, y) ==
    LET g == GCD(x[2], y[2])
    IN  x[1] * (y[2] \div g) <= y[1] * (x[2] \div g)
FloatMax(xs) == CHOOSE m \in xs : \A y \in xs : FloatLeq(y, m)

RECURSIVE FloatSum(_)
FloatSum(xs) == IF xs = <<>> THEN FloatOf(0) ELSE FloatAdd(xs[1], FloatSum(Tail(xs)))

RECURSIVE FloatPow(_, _)
FloatPow(x, e) == IF e = 0 THEN FloatOf(1) ELSE FloatMul(x, FloatPow(x, e - 1))

Zero == FloatOf(0)
Half == Float(1, 2)
One == FloatOf(1)

----------------------------------------------------------------------------
(* minihack_envs: observations and the state fingerprint *)

AGENT == 64
FREE == 46
GOAL == 62
BLANK == 32

Min(xs) == CHOOSE m \in xs : \A y \in xs : m <= y
Max(xs) == CHOOSE m \in xs : \A y \in xs : y <= m

get_crop_chars_from_observation(chars) ==
    LET coords == {c \in (1..Len(chars)) \X (1..Len(chars[1])) : chars[c[1]][c[2]] # BLANK}
        x_min == Min({c[1] : c \in coords})
        x_max == Max({c[1] : c \in coords})
        y_min == Min({c[2] : c \in coords})
        y_max == Max({c[2] : c \in coords})
    IN  [i \in 1..(x_max - x_min + 1) |-> SubSeq(chars[x_min + i - 1], y_min, y_max)]

RECURSIVE tobytes(_)
tobytes(chars) == IF chars = <<>> THEN <<>> ELSE chars[1] \o tobytes(Tail(chars))

hashable(obs) == tobytes(get_crop_chars_from_observation(obs))

\* The observations of a corridor of three cells, goal at its east end, in the
\* blank-padded screen the environment returns.
Observations ==
    { << <<BLANK, BLANK, BLANK, BLANK>>, <<BLANK, AGENT, FREE, GOAL>> >>,
      << <<BLANK, BLANK, BLANK, BLANK>>, <<BLANK, FREE, AGENT, GOAL>> >> }

InitialObservation == << <<BLANK, BLANK, BLANK, BLANK>>, <<BLANK, AGENT, FREE, GOAL>> >>

HashableStates == {hashable(o) : o \in Observations}
ActIndex == 0..(MaxActions - 1)
Keys == HashableStates \X ActIndex

RewardValues == {-1, 1}

----------------------------------------------------------------------------
(* agents.py: AbstractAgent *)

Variants == {"RandomAgent", "FixedAgent", "MCAgent", "SARSAAgent", "QAgent", "DynaQAgent"}
EpsilonGreedy == {"MCAgent", "SARSAAgent", "QAgent", "DynaQAgent"}

EmptyModel == [key \in {} |-> <<>>]
ZeroQ == [key \in Keys |-> Zero]
ZeroCount == [key \in Keys |-> 0]

\* random.random(): a draw from [0, 1), on a grid
UniformDraws == {Float(i, UniformGrid) : i \in 0..(UniformGrid - 1)}

\* [a for a, q in enumerate(Q) if q == max(Q)]
maximizers(Qt, S_t, nn) ==
    LET row == [a \in 0..(nn - 1) |-> Qt[<<S_t, a>>]]
        max_Q == FloatMax({row[a] : a \in 0..(nn - 1)})
    IN  {a \in 0..(nn - 1) : row[a] = max_Q}

\* 1 - self.epsilon + self.epsilon / self.action_space.n
threshold_wrong_no_share(eps, nn) == FloatSub(One, eps)
threshold(eps, nn) == FloatAdd(FloatSub(One, eps), FloatDiv(eps, FloatOf(nn)))

\* self.learning and random.random() >= threshold
explores_ignoring_learning(lrn, uu, eps, nn) == FloatLeq(threshold(eps, nn), uu)
explores(lrn, uu, eps, nn) == lrn /\ FloatLeq(threshold(eps, nn), uu)

\* [a for a in A if a != argmax_a]
explore_candidates_all(nn, argmax) == 0..(nn - 1)
explore_candidates(nn, argmax) == {a \in 0..(nn - 1) : a # argmax}

NoAction == -1

\* AbstractAgent.act: every result the two random.choice calls and the draw allow.
\* random.choice of an empty list raises IndexError.
AbstractAgent_act(Qt, S_t, lrn, eps, nn) ==
    UNION { UNION {
        LET base == [S_t |-> S_t, argmax_a |-> g, u |-> uu,
                     candidates |-> {}, branch |-> "exploit",
                     action |-> g, raised |-> FALSE]
        IN  IF explores(lrn, uu, eps, nn)
            THEN LET cs == explore_candidates(nn, g)
                 IN  IF cs = {}
                     THEN {[base EXCEPT !.branch = "explore", !.action = NoAction,
                                        !.raised = TRUE]}
                     ELSE {[base EXCEPT !.branch = "explore", !.candidates = cs,
                                        !.action = a] : a \in cs}
            ELSE {base}
        : uu \in UniformDraws } : g \in maximizers(Qt, S_t, nn) }

\* RandomAgent.act: int(self.action_space.sample())
RandomAgent_act(S_t, nn) ==
    {[S_t |-> S_t, argmax_a |-> NoAction, u |-> Zero, candidates |-> {},
      branch |-> "sample", action |-> a, raised |-> FALSE] : a \in 0..(nn - 1)}

\* ACTIONS.index(ACTION.E) and ACTIONS.index(ACTION.S), ACTIONS being N, E, S, W
ACTION_E == 1
ACTION_S == 2

\* FixedAgent.act: south while the cell below the agent is free, east otherwise;
\* ValueError when the agent is not in the observation.
FixedAgent_act_south_unless_last_row(obs) ==
    LET chars == get_crop_chars_from_observation(obs)
        agent_position == {c \in (1..Len(chars)) \X (1..Len(chars[1])) : chars[c[1]][c[2]] = AGENT}
        base == [S_t |-> hashable(obs), argmax_a |-> NoAction, u |-> Zero, candidates |-> {}, branch |-> "fixed", action |-> NoAction, raised |-> TRUE]
    IN  IF agent_position = {} THEN {base}
        ELSE IF Min({c[1] : c \in agent_position}) # Len(chars)
             THEN {[base EXCEPT !.action = ACTION_S, !.raised = FALSE]}
             ELSE {[base EXCEPT !.action = ACTION_E, !.raised = FALSE]}
FixedAgent_act(obs) ==
    LET chars == get_crop_chars_from_observation(obs)
        agent_position == {c \in (1..Len(chars)) \X (1..Len(chars[1])) :
                              chars[c[1]][c[2]] = AGENT}
        base == [S_t |-> hashable(obs), argmax_a |-> NoAction, u |-> Zero,
                 candidates |-> {}, branch |-> "fixed", action |-> NoAction,
                 raised |-> TRUE]
    IN  IF agent_position = {}
        THEN {base}
        ELSE LET agent_row == Min({c[1] : c \in agent_position})
                 agent_col == Min({c[2] : c \in {d \in agent_position : d[1] = agent_row}})
             IN  IF ~(agent_row = Len(chars) \/ chars[agent_row + 1][agent_col] # FREE)
                 THEN {[base EXCEPT !.action = ACTION_S, !.raised = FALSE]}
                 ELSE {[base EXCEPT !.action = ACTION_E, !.raised = FALSE]}

act(var, Qt, obs, lrn, eps, nn) ==
    CASE var = "RandomAgent" -> RandomAgent_act(hashable(obs), nn)
      [] var = "FixedAgent" -> FixedAgent_act(obs)
      [] OTHER -> AbstractAgent_act(Qt, hashable(obs), lrn, eps, nn)

NoCall == [S_t |-> <<>>, argmax_a |-> NoAction, u |-> Zero, candidates |-> {},
           branch |-> "none", action |-> NoAction, raised |-> FALSE]

----------------------------------------------------------------------------
(* agents.py: the update rules.  Buffers are 1-based here: S[t] of the code *)
(* is Sb[t + 1].                                                            *)

\* reset() that leaves the rewards of the last episode in place
reset_buffers_keeping_rewards == [S |-> <<>>, A |-> <<>>, R |-> R]

\* AbstractAgent.reset
reset_buffers == [S |-> <<>>, A |-> <<>>, R |-> <<>>]
reset_model(m) == EmptyModel

\* The update bootstrapping from the next state with the action of this step
SARSAAgent_on_step_end_repeating_action(Qt, Sb, Ab, Rb, tt, al, ga) ==
    LET key == <<Sb[tt + 1], Ab[tt + 1]>>
        nxt == <<Sb[tt + 2], Ab[tt + 1]>>
    IN  [Qt EXCEPT ![key] = FloatAdd(Qt[key],
            FloatMul(al, FloatSub(FloatAdd(Rb[tt + 1], FloatMul(ga, Qt[nxt])), Qt[key])))]

\* SARSAAgent.on_step_end
SARSAAgent_on_step_end(Qt, Sb, Ab, Rb, tt, al, ga) ==
    LET key == <<Sb[tt + 1], Ab[tt + 1]>>
        nxt == <<Sb[tt + 2], Ab[tt + 2]>>
    IN  [Qt EXCEPT ![key] = FloatAdd(Qt[key],
            FloatMul(al, FloatSub(FloatAdd(Rb[tt + 1], FloatMul(ga, Qt[nxt])), Qt[key])))]

\* max([self.Q[(s, a)] for a in A])
max_Q_at_first_action(Qt, s, nn) == Qt[<<s, 0>>]
max_Q_at(Qt, s, nn) == FloatMax({Qt[<<s, a>>] : a \in 0..(nn - 1)})

\* The update with the learning rate left out: Q[(s, a)] = r + gamma * max_a' Q[(s', a')]
q_learning_update_full_step(Qt, key, r, s_next, al, ga, nn) ==
    [Qt EXCEPT ![key] = FloatAdd(r, FloatMul(ga, max_Q_at(Qt, s_next, nn)))]

\* Q[(s, a)] += alpha * (r + gamma * max_a' Q[(s', a')] - Q[(s, a)])
q_learning_update(Qt, key, r, s_next, al, ga, nn) ==
    [Qt EXCEPT ![key] = FloatAdd(Qt[key],
        FloatMul(al, FloatSub(FloatAdd(r, FloatMul(ga, max_Q_at(Qt, s_next, nn))), Qt[key])))]

\* QAgent.on_step_end
QAgent_on_step_end(Qt, Sb, Ab, Rb, tt, al, ga, nn) ==
    q_learning_update(Qt, <<Sb[tt + 1], Ab[tt + 1]>>, Rb[tt + 1], Sb[tt + 2], al, ga, nn)

\* The entry stored with the state of the step in place of the next state
model_store_current_state(m, key, r, s_next) ==
    [x \in (DOMAIN m) \cup {key} |-> IF x = key THEN <<r, key[1]>> ELSE m[x]]

\* The entry stored only for a key the model does not hold yet
model_store_keeping_first(m, key, r, s_next) ==
    [x \in (DOMAIN m) \cup {key} |-> IF x \in DOMAIN m THEN m[x] ELSE <<r, s_next>>]

\* self.model[(S_t, A_t)] = (R_t, S_t_plus_1)
model_store(m, key, r, s_next) ==
    [x \in (DOMAIN m) \cup {key} |-> IF x = key THEN <<r, s_next>> ELSE m[x]]

\* DynaQAgent.on_step_end, the planning loop: each step applies the update to a
\* key random.choice draws from the model.  The set of tables it can end with.
RECURSIVE planning(_, _, _, _, _, _)
planning(Qt, m, left, al, ga, nn) ==
    IF left = 0
    THEN {Qt}
    ELSE UNION {planning(q_learning_update(Qt, key, m[key][1], m[key][2], al, ga, nn),
                         m, left - 1, al, ga, nn) : key \in DOMAIN m}

\* DynaQAgent.on_step_end
DynaQAgent_on_step_end(Qt, m, Sb, Ab, Rb, tt, al, ga, nn, planning_steps) ==
    LET key == <<Sb[tt + 1], Ab[tt + 1]>>
        Q1 == q_learning_update(Qt, key, Rb[tt + 1], Sb[tt + 2], al, ga, nn)
        m1 == model_store(m, key, Rb[tt + 1], Sb[tt + 2])
    IN  {[Q |-> Q2, model |-> m1] : Q2 \in planning(Q1, m1, planning_steps, al, ga, nn)}

\* on_step_end of the agent's class: the (Q, model) pairs it can leave.
on_step_end(var, Qt, m, Sb, Ab, Rb, tt, al, ga, nn, planning_steps) ==
    CASE var = "SARSAAgent" ->
            {[Q |-> SARSAAgent_on_step_end(Qt, Sb, Ab, Rb, tt, al, ga), model |-> m]}
      [] var = "QAgent" ->
            {[Q |-> QAgent_on_step_end(Qt, Sb, Ab, Rb, tt, al, ga, nn), model |-> m]}
      [] var = "DynaQAgent" ->
            DynaQAgent_on_step_end(Qt, m, Sb, Ab, Rb, tt, al, ga, nn, planning_steps)
      [] OTHER -> {[Q |-> Qt, model |-> m]}

\* MCAgent._already_occurred
_already_occurred(Sb, Ab, s, a, tt) ==
    \E t_prev \in 0..(tt - 1) : Sb[t_prev + 1] = s /\ Ab[t_prev + 1] = a

\* MCAgent._incremental_avg
_incremental_avg(prev_avg, curr_val, cnt) ==
    FloatAdd(FloatDiv(FloatMul(prev_avg, FloatOf(cnt)), FloatOf(cnt + 1)),
             FloatDiv(curr_val, FloatOf(cnt + 1)))

\* MCAgent.on_episode_end, the loop body for t = tt, tt - 1, ..., 0
RECURSIVE MCAgent_backward(_, _, _, _, _, _, _, _)
MCAgent_backward(Qt, cnt, Sb, Ab, Rb, ga, G, tt) ==
    IF tt < 0
    THEN [Q |-> Qt, state_action_count |-> cnt]
    ELSE LET key == <<Sb[tt + 1], Ab[tt + 1]>>
             G_t == FloatAdd(FloatMul(ga, G), Rb[tt + 2])
         IN  IF _already_occurred(Sb, Ab, key[1], key[2], tt)
             THEN MCAgent_backward(Qt, cnt, Sb, Ab, Rb, ga, G_t, tt - 1)
             ELSE MCAgent_backward(
                      [Qt EXCEPT ![key] = _incremental_avg(Qt[key], G_t, cnt[key])],
                      [cnt EXCEPT ![key] = @ + 1], Sb, Ab, Rb, ga, G_t, tt - 1)

\* for t in range(t - 2, -1, -1), with t = len(self.S) - 1
MCAgent_first_t(Sb) == (Len(Sb) - 1) - 2

DecayPeriod == 9999999

\* if k % 9999999 == 0: self.epsilon *= 0.5
MCAgent_decay(eps, kk) == IF kk % DecayPeriod = 0 THEN FloatMul(eps, Half) ELSE eps

\* on_episode_end without the check of the buffer lengths
MCAgent_on_episode_end_unchecked(Qt, cnt, m, Sb, Ab, Rb, ga, eps, kk) ==
    LET upd == MCAgent_backward(Qt, cnt, Sb, Ab, Rb, ga, Zero, MCAgent_first_t(Sb))
    IN  [raised |-> FALSE, Q |-> upd.Q, state_action_count |-> upd.state_action_count,
         epsilon |-> MCAgent_decay(eps, kk),
         S |-> reset_buffers.S, A |-> reset_buffers.A, R |-> reset_buffers.R,
         model |-> reset_model(m)]

\* MCAgent.on_episode_end
MCAgent_on_episode_end(Qt, cnt, m, Sb, Ab, Rb, ga, eps, kk) ==
    IF ~(Len(Sb) = Len(Ab) /\ Len(Ab) = Len(Rb))
    THEN [raised |-> TRUE, Q |-> Qt, state_action_count |-> cnt, epsilon |-> eps,
          S |-> Sb, A |-> Ab, R |-> Rb, model |-> m]
    ELSE LET upd == MCAgent_backward(Qt, cnt, Sb, Ab, Rb, ga, Zero, MCAgent_first_t(Sb))
         IN  [raised |-> FALSE, Q |-> upd.Q, state_action_count |-> upd.state_action_count,
              epsilon |-> MCAgent_decay(eps, kk),
              S |-> reset_buffers.S, A |-> reset_buffers.A, R |-> reset_buffers.R,
              model |-> reset_model(m)]

\* AbstractAgent.on_episode_end
AbstractAgent_on_episode_end(Qt, cnt, m, eps) ==
    [raised |-> FALSE, Q |-> Qt, state_action_count |-> cnt, epsilon |-> eps,
     S |-> reset_buffers.S, A |-> reset_buffers.A, R |-> reset_buffers.R,
     model |-> reset_model(m)]

on_episode_end(var, Qt, cnt, m, Sb, Ab, Rb, ga, eps, kk) ==
    IF var = "MCAgent"
    THEN MCAgent_on_episode_end(Qt, cnt, m, Sb, Ab, Rb, ga, eps, kk)
    ELSE AbstractAgent_on_episode_end(Qt, cnt, m, eps)

\* The agent as a method call finds it.
snapshot == [Q |-> Q, state_action_count |-> state_action_count, S |-> S, A |-> A,
             R |-> R, model |-> model, epsilon |-> epsilon, learning |-> learning]

\* reset() that also forgets what was learnt
AbstractAgent_reset_forgetting(self) ==
    [self EXCEPT !.S = <<>>, !.A = <<>>, !.R = <<>>, !.model = EmptyModel,
                 !.Q = ZeroQ, !.state_action_count = ZeroCount]

\* AbstractAgent.reset, on the agent as it is
AbstractAgent_reset(self) ==
    [self EXCEPT !.S = reset_buffers.S, !.A = reset_buffers.A, !.R = reset_buffers.R,
                 !.model = reset_model(self.model)]

NoHook == [name |-> "none", arg |-> 0, raised |-> FALSE, pre |-> snapshot]

----------------------------------------------------------------------------
(* SpecAct: act called on an agent whose table holds arbitrary learnt values *)

EpsilonValues == {Zero, Float(1, 4), Half, One}
QValues == {FloatOf(-1), Zero, One}

\* no module-level function has been called
NoFnCall == [name |-> "none"]

driver_idle ==
    /\ num_episodes = 0 /\ k = 0 /\ t = 0
    /\ state = InitialObservation
    /\ action = NoAction
    /\ steps = 0
    /\ step_end_calls = <<>>
    /\ episode_end_calls = <<>>
    /\ raw_rewards = <<>>
    /\ episodic_returns = <<>>
    /\ avg_returns = <<>>
    /\ renders = 0
    /\ done = FALSE
    /\ max_num_steps = 0
    /\ episodes_run = 0
    /\ open_steps = 0
    /\ act_calls = 0
    /\ interact_calls = 0

InitAct ==
    /\ variant = "MCAgent"
    /\ learning \in BOOLEAN
    /\ alpha = Half
    /\ gamma = One
    /\ epsilon \in EpsilonValues
    /\ n \in 1..MaxActions
    /\ max_episode_steps = MaxEpisodeSteps
    /\ num_planning_steps = 0
    /\ Q \in {q \in [Keys -> QValues] : \A key \in Keys : key[2] >= n => q[key] = Zero}
    /\ state_action_count = ZeroCount
    /\ S = <<>> /\ A = <<>> /\ R = <<>>
    /\ model = EmptyModel
    /\ act_call = NoCall
    /\ hook = NoHook
    /\ pc = "caller"
    /\ driver_idle
    /\ fn_call = NoFnCall

\* agent.act(state), called directly
CallAct ==
    /\ pc = "caller"
    /\ \E obs \in Observations :
         \E o \in act(variant, Q, obs, learning, epsilon, n) :
            /\ act_call' = o
            /\ hook' = [name |-> "act", arg |-> 0, raised |-> o.raised, pre |-> snapshot]
            /\ state' = obs
            /\ action' = o.action
    /\ pc' = "returned"
    /\ act_calls' = act_calls + 1
    /\ UNCHANGED <<interact_calls, fn_call>>
    /\ UNCHANGED <<agent_vars, num_episodes, k, t, steps, step_end_calls,
                   episode_end_calls, raw_rewards, episodic_returns, avg_returns,
                   renders, done, max_num_steps, episodes_run, open_steps>>

NextAct == CallAct

SpecAct == InitAct /\ [][NextAct]_vars

\* The last call was act, and returned.
Acted == hook.name = "act" /\ ~act_call.raised

IsMaximizer(a) ==
    /\ a \in 0..(n - 1)
    /\ \A b \in 0..(n - 1) : FloatLeq(Q[<<act_call.S_t, b>>], Q[<<act_call.S_t, a>>])

\* C8: with learning false (whatever epsilon is) or with epsilon = 0, act returns an
\* action whose Q value at the state's fingerprint is the maximum over all actions.
C8_GreedyWhenNotLearningOrEpsilonZero ==
    (hook.name = "act" /\ (~learning \/ epsilon = Zero)) =>
        /\ ~act_call.raised
        /\ act_call.S_t = hashable(state)
        /\ IsMaximizer(act_call.action)

\* C8 witness: a non-learning agent with epsilon = 1 and a table that prefers one
\* action has acted on a draw that would explore in learning mode.
C8_Witness ==
    /\ Acted /\ ~learning /\ epsilon = One /\ n >= 2
    /\ \E b \in 0..(n - 1) : ~IsMaximizer(b)
    /\ FloatLeq(threshold(epsilon, n), act_call.u)
    /\ IsMaximizer(act_call.action)

\* u >= bound, for floats u and bound
AtLeast(uu, bound) == FloatLeq(bound, uu)

\* C9 as stated: in learning mode act explores exactly when u >= 1 - epsilon.
C9_ExploresWithProbabilityEpsilon ==
    (hook.name = "act" /\ learning) =>
        (act_call.branch = "explore" <=> AtLeast(act_call.u, FloatSub(One, epsilon)))

\* C9 amended: in learning mode act explores exactly when
\* u >= 1 - epsilon + epsilon / n, a region of measure epsilon * (n - 1) / n, and
\* exploits otherwise.  The bound is compared as n * u >= n - (n - 1) * epsilon.
C9_ExploresAboveSharedThreshold ==
    (hook.name = "act" /\ learning) =>
        /\ act_call.branch \in {"explore", "exploit"}
        /\ act_call.branch = "explore" <=>
              AtLeast(FloatMul(FloatOf(n), act_call.u),
                      FloatSub(FloatOf(n), FloatMul(FloatOf(n - 1), epsilon)))

\* C9 witness: a learning agent explored on a draw, and exploited on a draw that lies
\* in [1 - epsilon, 1 - epsilon + epsilon / n).
C9_Witness ==
    /\ Acted /\ learning /\ n >= 2 /\ epsilon = Half
    /\ act_call.branch = "exploit"
    /\ AtLeast(act_call.u, FloatSub(One, epsilon))

\* The results act can give on obs in the agent's present state.
ActResults(obs) == act(variant, Q, obs, learning, epsilon, n)

\* In the call just made, every index other than the greedy one it selected was a
\* possible result of the exploring branch.
ExploringResultsCoverNonGreedy ==
    (hook.name = "act" /\ act_call.branch = "explore") =>
        \A a \in (0..(n - 1)) \ {act_call.argmax_a} :
            \E o \in ActResults(state) :
                /\ o.branch = "explore" /\ o.argmax_a = act_call.argmax_a
                /\ o.u = act_call.u /\ o.action = a

ExploringCallIsValid ==
    (hook.name = "act" /\ act_call.branch = "explore") =>
        /\ ~act_call.raised
        /\ act_call.action \in 0..(n - 1)
        /\ act_call.action # act_call.argmax_a

NeverExploresWithOneAction ==
    (hook.name = "act" /\ n = 1) =>
        /\ act_call.branch # "explore"
        /\ \A o \in ActResults(state) : ~o.raised

\* In the call just made, every action index was a possible result.
EveryIndexPossible ==
    {o.action : o \in ActResults(state)} = 0..(n - 1)

\* C10 as stated: the exploring branch returns a valid index other than the greedy
\* action and any such index is possible; with epsilon = 1 and n > 1 every index is
\* a possible result of act; with n = 1 act never explores.
C10_ExploreExcludesGreedy ==
    /\ ExploringCallIsValid
    /\ ExploringResultsCoverNonGreedy
    /\ NeverExploresWithOneAction
    /\ (hook.name = "act" /\ epsilon = One /\ n > 1) => EveryIndexPossible

\* C10 amended: the same, the epsilon = 1 case read with agent.learning true.
C10_ExploreExcludesGreedyWhenLearning ==
    /\ ExploringCallIsValid
    /\ ExploringResultsCoverNonGreedy
    /\ NeverExploresWithOneAction
    /\ (hook.name = "act" /\ learning /\ epsilon = One /\ n > 1) => EveryIndexPossible

\* C10 witness: a learning agent with epsilon = 1, several actions and a table that
\* prefers one of them explored and returned a non-greedy action.
C10_Witness ==
    /\ Acted /\ learning /\ epsilon = One /\ n > 1
    /\ act_call.branch = "explore"
    /\ maximizers(Q, act_call.S_t, n) = {act_call.argmax_a}
    /\ act_call.action # act_call.argmax_a

----------------------------------------------------------------------------
(* SpecAgent: the hooks of a fresh agent called on the buffers of one episode, *)
(* in the order interact calls them                                            *)

Rewards == {FloatOf(r) : r \in RewardValues}

\* The buffers interact leaves: len(S) = len(A), and len(R) the same (the episode
\* ended on a terminal step) or one less (it ended on the step cap).  The actions
\* recorded are among the first two indices and S[0] is the fingerprint of what
\* env.reset() returns.
EpisodeBuffers(nn) ==
    UNION {
        {[S |-> s, A |-> a, R |-> r] :
            s \in {f \in [1..L -> HashableStates] : f[1] = hashable(InitialObservation)},
            a \in [1..L -> {x \in 0..(nn - 1) : x <= 1}],
            r \in [1..L -> Rewards] \cup [1..(L - 1) -> Rewards]}
        : L \in 1..MaxBufferLen }

InitAgent ==
    /\ variant \in Variants
    /\ learning = TRUE
    /\ alpha = Half
    /\ gamma \in IF variant \in {"RandomAgent", "FixedAgent", "DynaQAgent"}
                 THEN {One} ELSE {Half, One}
    /\ epsilon = Half
    /\ n = MaxActions
    /\ max_episode_steps = MaxEpisodeSteps
    /\ num_planning_steps \in IF variant = "DynaQAgent" THEN {0, MaxPlanningSteps} ELSE {0}
    /\ Q = ZeroQ
    /\ state_action_count = ZeroCount
    /\ \E b \in EpisodeBuffers(n) : S = b.S /\ A = b.A /\ R = b.R
    /\ model = EmptyModel
    /\ act_call = NoCall
    /\ hook = NoHook
    /\ pc = "caller"
    /\ driver_idle
    /\ fn_call = NoFnCall

\* agent.on_step_end(t), for t = 0, 1, ... while S[t + 1] exists
CallOnStepEnd ==
    /\ pc = "caller"
    /\ t + 2 <= Len(S)
    /\ \E o \in on_step_end(variant, Q, model, S, A, R, t, alpha, gamma, n,
                            num_planning_steps) :
          /\ Q' = o.Q
          /\ model' = o.model
    /\ hook' = [name |-> "on_step_end", arg |-> t, raised |-> FALSE, pre |-> snapshot]
    /\ step_end_calls' = Append(step_end_calls, t)
    /\ t' = t + 1
    /\ UNCHANGED <<variant, learning, alpha, gamma, epsilon, n, max_episode_steps,
                   num_planning_steps, state_action_count, S, A, R, act_call, pc,
                   num_episodes, k, state, action, steps, episode_end_calls,
                   raw_rewards, episodic_returns, avg_returns, renders, done, max_num_steps, episodes_run, open_steps, act_calls, interact_calls, fn_call>>

\* agent.on_episode_end(k), once the steps of the episode are processed
CallOnEpisodeEnd ==
    /\ pc = "caller"
    /\ t + 2 > Len(S)
    /\ \E kk \in IF variant = "MCAgent" THEN {0, MaxEpisodes - 1} ELSE {0} :
        LET o == on_episode_end(variant, Q, state_action_count, model, S, A, R,
                                gamma, epsilon, kk)
        IN  /\ Q' = o.Q
            /\ state_action_count' = o.state_action_count
            /\ epsilon' = o.epsilon
            /\ S' = o.S /\ A' = o.A /\ R' = o.R
            /\ model' = o.model
            /\ hook' = [name |-> "on_episode_end", arg |-> kk, raised |-> o.raised,
                        pre |-> snapshot]
            /\ pc' = IF o.raised THEN "raised" ELSE "returned"
            /\ k' = kk
            /\ episode_end_calls' = Append(episode_end_calls, kk)
    /\ UNCHANGED <<variant, learning, alpha, gamma, n, max_episode_steps,
                   num_planning_steps, act_call, num_episodes, t, state, action,
                   steps, step_end_calls, raw_rewards, episodic_returns,
                   avg_returns, renders, done, max_num_steps, episodes_run, open_steps, act_calls, interact_calls, fn_call>>

\* agent.reset(), called directly at the end of the episode
CallReset ==
    /\ pc = "caller"
    /\ t + 2 > Len(S)
    /\ LET o == AbstractAgent_reset(snapshot)
       IN  /\ S' = o.S /\ A' = o.A /\ R' = o.R
           /\ model' = o.model
           /\ Q' = o.Q
           /\ state_action_count' = o.state_action_count
    /\ hook' = [name |-> "reset", arg |-> 0, raised |-> FALSE, pre |-> snapshot]
    /\ pc' = "returned"
    /\ UNCHANGED <<variant, learning, alpha, gamma, epsilon, n, max_episode_steps,
                   num_planning_steps, act_call,
                   num_episodes, k, t, state, action, steps, step_end_calls,
                   episode_end_calls, raw_rewards, episodic_returns, avg_returns,
                   renders, done, max_num_steps, episodes_run, open_steps, act_calls, interact_calls, fn_call>>

NextAgent == CallOnStepEnd \/ CallOnEpisodeEnd \/ CallReset

SpecAgent == InitAgent /\ [][NextAgent]_vars

----------------------------------------------------------------------------
(* Claims on reset and the update rules *)

StepWise == {"SARSAAgent", "QAgent", "DynaQAgent"}

\* C2 as stated: reset() empties S, A and R and leaves Q, the visit counts and the
\* Dyna-Q model table as they were.
C2_ResetKeepsTables ==
    hook.name = "reset" =>
        /\ S = <<>> /\ A = <<>> /\ R = <<>>
        /\ Q = hook.pre.Q
        /\ state_action_count = hook.pre.state_action_count
        /\ model = hook.pre.model

\* on_step_end(0) has just processed the first transition of a fresh agent with
\* alpha = 0.5 and gamma = 1.
FirstTransitionProcessed ==
    /\ hook.name = "on_step_end" /\ hook.arg = 0
    /\ variant \in StepWise
    /\ hook.pre.Q = ZeroQ
    /\ alpha = Half /\ gamma = One

\* C3 as stated: for SARSA, Q-learning and Dyna-Q (with its planning steps), after
\* the first transition (s, a, r, s') from an all-zero table with alpha = 0.5 and
\* gamma = 1, Q[(s, a)] = 0.5 * r.
C3_FirstUpdateIsHalfReward ==
    FirstTransitionProcessed => Q[<<S[1], A[1]>>] = FloatMul(Half, R[1])

\* C3 amended: Q[(s, a)] = 0.5 * r for SARSA, Q-learning and for Dyna-Q without
\* planning steps; with N >= 1 planning steps and r # 0 Dyna-Q replays the stored
\* transition and leaves a value other than 0.5 * r.
C3_FirstUpdateIsHalfRewardBeforePlanning ==
    FirstTransitionProcessed =>
        /\ (variant # "DynaQAgent" \/ num_planning_steps = 0) =>
              Q[<<S[1], A[1]>>] = FloatMul(Half, R[1])
        /\ (variant = "DynaQAgent" /\ num_planning_steps >= 1 /\ R[1] # Zero) =>
              Q[<<S[1], A[1]>>] # FloatMul(Half, R[1])

\* C3 witness: Q-learning has processed a first transition with a non-zero reward.
C3_Witness ==
    /\ FirstTransitionProcessed /\ variant = "QAgent"
    /\ R[1] = One
    /\ Q[<<S[1], A[1]>>] = Half

\* on_episode_end of a fresh Monte Carlo agent with gamma = 1 has returned.
FreshMCEpisodeEnded ==
    /\ hook.name = "on_episode_end" /\ ~hook.raised
    /\ variant = "MCAgent"
    /\ hook.pre.Q = ZeroQ /\ hook.pre.state_action_count = ZeroCount

\* C4 as stated: for a fresh MCAgent with gamma = 1, on_episode_end on S = [s0, s1],
\* A = [a0, a1], R = [r1, r2] with (s0, a0) # (s1, a1) leaves Q[(s0, a0)] = r1 + r2.
C4_TwoStepEpisodeReturn ==
    LET p == hook.pre
    IN  (/\ FreshMCEpisodeEnded /\ gamma = One
         /\ Len(p.S) = 2 /\ Len(p.A) = 2 /\ Len(p.R) = 2
         /\ <<p.S[1], p.A[1]>> # <<p.S[2], p.A[2]>>)
        => Q[<<p.S[1], p.A[1]>>] = FloatAdd(p.R[1], p.R[2])

\* C18: after on_episode_end(k) returns normally, S, A and R are empty, for every
\* class of agent.
C18_BuffersEmptyAfterEpisodeEnd ==
    (hook.name = "on_episode_end" /\ ~hook.raised) =>
        (S = <<>> /\ A = <<>> /\ R = <<>>)

\* C18 witness: on_episode_end of a Monte Carlo agent has learnt from an episode of
\* three steps and returned.
C18_Witness ==
    /\ hook.name = "on_episode_end" /\ ~hook.raised
    /\ variant = "MCAgent"
    /\ Len(hook.pre.S) = 3 /\ Len(hook.pre.R) = 3
    /\ Q # hook.pre.Q

\* sum over l >= 0 of gamma^l * Rb[i + l]
RECURSIVE ReturnFollowing(_, _, _)
ReturnFollowing(Rb, ga, i) ==
    IF i > Len(Rb) THEN Zero ELSE FloatAdd(Rb[i], FloatMul(ga, ReturnFollowing(Rb, ga, i + 1)))

FirstOccurrence(Sb, Ab, key) ==
    Min({i \in 1..Len(Sb) : <<Sb[i], Ab[i]>> = key})

\* C5 as stated: after MCAgent.on_episode_end on buffers of equal lengths, every
\* (state, action) pair of the episode has Q set to the running average of its old
\* value and the discounted return following its first occurrence, and its count
\* increased by 1; the other pairs keep Q and count.
C5_FirstVisitUpdate ==
    LET p == hook.pre
        visited == {<<p.S[i], p.A[i]>> : i \in 1..Len(p.S)}
    IN  (/\ hook.name = "on_episode_end" /\ variant = "MCAgent"
         /\ Len(p.S) = Len(p.A) /\ Len(p.A) = Len(p.R))
        => \A key \in Keys :
              IF key \in visited
              THEN /\ state_action_count[key] = p.state_action_count[key] + 1
                   /\ Q[key] = _incremental_avg(
                                   p.Q[key],
                                   ReturnFollowing(p.R, gamma, FirstOccurrence(p.S, p.A, key)),
                                   p.state_action_count[key])
              ELSE /\ state_action_count[key] = p.state_action_count[key]
                   /\ Q[key] = p.Q[key]

----------------------------------------------------------------------------
(* returns.py *)

\* discount_factors = np.power(gamma, np.arange(T))
discount_factors_all_one(ga, T) == [j \in 1..T |-> One]
discount_factors(ga, T) == [j \in 1..T |-> FloatPow(ga, j - 1)]

\* discount_matrix = np.zeros((T, T)); discount_matrix[i, i:] = discount_factors[: T - i]
discount_matrix_unshifted(ga, T) ==
    [i \in 1..T |-> [j \in 1..T |-> discount_factors(ga, T)[j]]]
discount_matrix(ga, T) ==
    [i \in 1..T |->
        [j \in 1..T |-> IF j >= i THEN discount_factors(ga, T)[j - i + 1] ELSE Zero]]

\* calculate_returns: [] for no rewards, else discount_matrix @ rewards as a list
calculate_returns(rewards, ga) ==
    IF rewards = <<>>
    THEN <<>>
    ELSE LET T == Len(rewards)
         IN  [i \in 1..T |->
                FloatSum([j \in 1..T |-> FloatMul(discount_matrix(ga, T)[i][j], rewards[j])])]

\* calculate_episodic_return: sum over t of gamma^t * rewards[t], 0.0 for no rewards
calculate_episodic_return_undiscounted(rewards, ga) == FloatSum(rewards)
calculate_episodic_return(rewards, ga) ==
    IF rewards = <<>>
    THEN Zero
    ELSE FloatSum([i \in 1..Len(rewards) |-> FloatMul(FloatPow(ga, i - 1), rewards[i])])

----------------------------------------------------------------------------
(* task.py: RLTask.  The environment is any environment over Observations:  *)
(* env.reset() returns InitialObservation, env.step(action) returns any     *)
(* observation, a reward of StepRewards and any done flag, except that once *)
(* MaxOpenSteps of its steps have not reported done every later one does.   *)

StepRewards == {FloatOf(-1)}

\* terminated or truncated, as env.step may report it now
env_done == IF open_steps < MaxOpenSteps THEN BOOLEAN ELSE {TRUE}

Idle == pc \in {"idle", "interact_returned", "visualize_returned"}

\* The actions agent.act(obs) can return; NoAction when it raises.
act_returns(obs) == {o.action : o \in act(variant, Q, obs, learning, epsilon, n)}

\* self.agent.S.append(hashable(state)): the driver records the state it passes to act
record_state_twice(Sb, obs) == Append(Append(Sb, hashable(obs)), hashable(obs))
record_state(Sb, obs) == Append(Sb, hashable(obs))

\* self.agent.R.append(reward): the driver records the reward env.step returned
record_reward_twice(Rb, reward) == Append(Append(Rb, reward), reward)
record_reward(Rb, reward) == Append(Rb, reward)

\* while not done and (max_num_steps is None or t < max_num_steps)
visualize_continues_one_more(d, tt, m) == ~d /\ tt <= m
visualize_continues(d, tt, m) == ~d /\ tt < m

\* sum(episodic_returns) / (k + 1)
running_average_last_only(returns, kk) == returns[Len(returns)]
running_average(returns, kk) == FloatDiv(FloatSum(returns), FloatOf(kk + 1))

Init ==
    /\ variant \in Variants
    /\ learning = TRUE
    /\ alpha = Half
    /\ gamma = Half
    /\ epsilon = Half
    /\ n = 2                    \* the corridor of Observations: left and right
    /\ max_episode_steps \in {1, MaxEpisodeSteps}
    /\ num_planning_steps = IF variant = "DynaQAgent" THEN 1 ELSE 0   \* one planning step per real step
    /\ Q = ZeroQ
    /\ state_action_count = ZeroCount
    /\ S = <<>> /\ A = <<>> /\ R = <<>>
    /\ model = EmptyModel
    /\ act_call = NoCall
    /\ hook = NoHook
    /\ pc = "idle"
    /\ driver_idle
    /\ fn_call = NoFnCall

\* task.interact(num_episodes): lines 28-32, up to the first episode
interact ==
    /\ Idle
    /\ \E num \in 0..(MaxEpisodes - episodes_run) :
          /\ num_episodes' = num
          /\ interact_calls' = IF num = 0 THEN interact_calls ELSE interact_calls + 1
          /\ pc' = IF num = 0 THEN "interact_returned" ELSE "episode_start"
    /\ k' = 0
    /\ avg_returns' = <<>>
    /\ episodic_returns' = <<>>
    /\ raw_rewards' = <<>>
    /\ episode_end_calls' = <<>>
    /\ step_end_calls' = <<>>
    /\ UNCHANGED <<agent_vars, act_call, hook, t, state, action, steps, renders, done,
                   max_num_steps, episodes_run, open_steps, act_calls, fn_call>>

\* interact, lines 33-41: both resets, the first state and the first action
interact_episode_start ==
    /\ pc = "episode_start"
    /\ state' = InitialObservation
    /\ S' = record_state(AbstractAgent_reset(snapshot).S, InitialObservation)
    /\ R' = AbstractAgent_reset(snapshot).R
    /\ model' = AbstractAgent_reset(snapshot).model
    /\ Q' = AbstractAgent_reset(snapshot).Q
    /\ state_action_count' = AbstractAgent_reset(snapshot).state_action_count
    /\ \E a \in act_returns(InitialObservation) :
          /\ action' = a
          /\ IF a = NoAction
             THEN /\ A' = AbstractAgent_reset(snapshot).A
                  /\ pc' = "raised"
             ELSE /\ A' = Append(AbstractAgent_reset(snapshot).A, a)
                  /\ pc' = IF 0 < max_episode_steps THEN "step" ELSE "episode_end"
    /\ hook' = [name |-> "act", arg |-> 0, raised |-> (action' = NoAction),
                pre |-> [snapshot EXCEPT !.S = S', !.A = <<>>, !.R = <<>>,
                                         !.model = EmptyModel]]
    /\ t' = 0
    /\ steps' = 0
    /\ done' = FALSE
    /\ step_end_calls' = <<>>
    /\ raw_rewards' = Append(raw_rewards, <<>>)
    /\ episodes_run' = episodes_run + 1
    /\ act_calls' = 1
    /\ UNCHANGED <<interact_calls, fn_call>>
    /\ UNCHANGED <<variant, learning, alpha, gamma, epsilon, n, max_episode_steps,
                   num_planning_steps, act_call,
                   num_episodes, k, episode_end_calls, episodic_returns,
                   avg_returns, renders, max_num_steps, open_steps>>

\* interact, lines 43-56: one pass of the step loop
interact_step ==
    /\ pc = "step"
    /\ UNCHANGED <<interact_calls, fn_call>>
    /\ \E reward \in StepRewards, d \in env_done :
          /\ R' = record_reward(R, reward)
          /\ open_steps' = IF d THEN open_steps ELSE open_steps + 1
          /\ raw_rewards' = [raw_rewards EXCEPT ![Len(raw_rewards)] = Append(@, reward)]
          /\ steps' = steps + 1
          /\ done' = d
          /\ IF d
             THEN /\ pc' = "episode_end"
                  /\ UNCHANGED <<S, A, Q, model, state, action, hook, t, step_end_calls,
                                 act_calls>>
             ELSE \E obs \in Observations :
                  \E a \in act_returns(obs) :
                     /\ state' = obs
                     /\ act_calls' = act_calls + 1
                     /\ S' = record_state(S, obs)
                     /\ action' = a
                     /\ IF a = NoAction
                        THEN /\ pc' = "raised"
                             /\ hook' = [name |-> "act", arg |-> 0, raised |-> TRUE,
                                         pre |-> [snapshot EXCEPT !.S = S', !.R = R']]
                             /\ UNCHANGED <<A, Q, model, t, step_end_calls>>
                        ELSE /\ A' = Append(A, a)
                             /\ \E o \in on_step_end(variant, Q, model, S', A', R', t,
                                                     alpha, gamma, n, num_planning_steps) :
                                   /\ Q' = o.Q
                                   /\ model' = o.model
                             /\ hook' = [name |-> "on_step_end", arg |-> t,
                                         raised |-> FALSE,
                                         pre |-> [snapshot EXCEPT !.S = S', !.A = A',
                                                                  !.R = R']]
                             /\ step_end_calls' = Append(step_end_calls, t)
                             /\ t' = t + 1
                             /\ pc' = IF t + 1 < max_episode_steps
                                      THEN "step" ELSE "episode_end"
    /\ UNCHANGED <<variant, learning, alpha, gamma, epsilon, n, max_episode_steps,
                   num_planning_steps, state_action_count, act_call, num_episodes, k,
                   episode_end_calls, episodic_returns, avg_returns, renders,
                   max_num_steps, episodes_run>>

\* interact, lines 58-62: the returns, on_episode_end, and the next episode or the return
interact_episode_end ==
    /\ pc = "episode_end"
    /\ episodic_returns' = Append(episodic_returns, calculate_episodic_return(R, gamma))
    /\ avg_returns' = Append(avg_returns, running_average(episodic_returns', k))
    /\ LET o == on_episode_end(variant, Q, state_action_count, model, S, A, R,
                               gamma, epsilon, k)
       IN  /\ Q' = o.Q
           /\ state_action_count' = o.state_action_count
           /\ epsilon' = o.epsilon
           /\ S' = o.S /\ A' = o.A /\ R' = o.R
           /\ model' = o.model
           /\ hook' = [name |-> "on_episode_end", arg |-> k, raised |-> o.raised,
                       pre |-> snapshot]
           /\ IF o.raised
              THEN /\ pc' = "raised"
                   /\ k' = k
              ELSE /\ k' = k + 1
                   /\ pc' = IF k + 1 < num_episodes
                            THEN "episode_start" ELSE "interact_returned"
    /\ episode_end_calls' = Append(episode_end_calls, k)
    /\ UNCHANGED <<variant, learning, alpha, gamma, n, max_episode_steps,
                   num_planning_steps, act_call, num_episodes, t, state, action,
                   steps, step_end_calls, raw_rewards, renders, done, max_num_steps,
                   episodes_run, open_steps, act_calls, interact_calls, fn_call>>

\* task.visualize_episode(max_num_steps), lines 75-84
visualize_episode ==
    /\ Idle
    /\ episodes_run < MaxEpisodes
    /\ \E m \in {0, max_episode_steps} : max_num_steps' = m
    /\ LET o == AbstractAgent_reset(snapshot)
       IN  /\ S' = o.S /\ A' = o.A /\ R' = o.R
           /\ model' = o.model
           /\ Q' = o.Q
           /\ state_action_count' = o.state_action_count
    /\ learning' = FALSE
    /\ hook' = [name |-> "reset", arg |-> 0, raised |-> FALSE, pre |-> snapshot]
    /\ t' = 0
    /\ steps' = 0
    /\ done' = FALSE
    /\ state' = InitialObservation
    /\ renders' = 1
    /\ episodes_run' = episodes_run + 1
    /\ pc' = "visualize"
    /\ act_calls' = 0
    /\ UNCHANGED <<interact_calls, fn_call>>
    /\ UNCHANGED <<variant, alpha, gamma, epsilon, n, max_episode_steps,
                   num_planning_steps, act_call,
                   num_episodes, k, action, step_end_calls, episode_end_calls,
                   raw_rewards, episodic_returns, avg_returns, open_steps>>

\* visualize_episode, lines 86-94: one pass of the while loop
visualize_step ==
    /\ pc = "visualize"
    /\ visualize_continues(done, t, max_num_steps)
    /\ t' = t + 1
    /\ act_calls' = act_calls + 1
    /\ UNCHANGED <<interact_calls, fn_call>>
    /\ \E a \in act_returns(state) :
          /\ action' = a
          /\ hook' = [name |-> "act", arg |-> 0, raised |-> (a = NoAction),
                      pre |-> snapshot]
          /\ IF a = NoAction
             THEN /\ pc' = "raised"
                  /\ UNCHANGED <<state, done, renders, steps, open_steps>>
             ELSE /\ \E obs \in Observations, d \in env_done :
                        /\ state' = obs
                        /\ done' = d
                        /\ open_steps' = IF d THEN open_steps ELSE open_steps + 1
                  /\ steps' = steps + 1
                  /\ renders' = renders + 1
                  /\ pc' = "visualize"
    /\ UNCHANGED <<agent_vars, act_call, num_episodes, k, step_end_calls,
                   episode_end_calls, raw_rewards, episodic_returns, avg_returns,
                   max_num_steps, episodes_run>>

\* visualize_episode, line 86: the loop condition fails and the call returns
visualize_return ==
    /\ pc = "visualize"
    /\ ~visualize_continues(done, t, max_num_steps)
    /\ pc' = "visualize_returned"
    /\ UNCHANGED <<agent_vars, act_call, hook, num_episodes, k, t, state, action,
                   steps, step_end_calls, episode_end_calls, raw_rewards,
                   episodic_returns, avg_returns, renders, done, max_num_steps,
                   episodes_run, open_steps, act_calls, interact_calls, fn_call>>

Next ==
    \/ interact
    \/ interact_episode_start
    \/ interact_step
    \/ interact_episode_end
    \/ visualize_episode
    \/ visualize_step
    \/ visualize_return

Spec == Init /\ [][Next]_vars

-----------------------------------------------------------------------------
(* The hooks and the buffers of RLTask.interact *)

\* 0, 1, ..., count - 1: the arguments of a hook called once per index, in order
IndicesUpTo(count) == [i \in 1..count |-> i - 1]

\* The step loop of an episode of interact has ended and on_episode_end is due.
AtEpisodeEnd == pc = "episode_end"

\* C1 as stated: during interact with agent.learning true, on_step_end(t) has been
\* invoked once for every environment transition t of the episode when the episode
\* ends, the transition that reported done included, and on_episode_end(k) has been
\* invoked once for every episode k that has ended.
C1_HooksAfterEveryTransition ==
    /\ (learning /\ AtEpisodeEnd) => step_end_calls = IndicesUpTo(steps)
    /\ (learning /\ pc \in {"episode_start", "step", "episode_end"})
          => episode_end_calls = IndicesUpTo(k)
    /\ (learning /\ pc = "interact_returned")
          => episode_end_calls = IndicesUpTo(num_episodes)

\* C11: after the j-th decision of an episode of interact (the act call with the
\* appends around it) len(S) = len(A) = j, S[j - 1] is the fingerprint of the
\* observation passed to that call and A[j - 1] the action it returned.
C11_OneEntryPerDecision ==
    pc \in {"step", "episode_end"} =>
        /\ Len(S) = act_calls /\ Len(A) = act_calls
        /\ S[act_calls] = hashable(state)
        /\ A[act_calls] = action

\* C11 witness: the second decision of an episode was taken on another observation
\* than the first.
C11_Witness ==
    /\ pc \in {"step", "episode_end"}
    /\ act_calls = 2 /\ Len(S) = 2
    /\ S[1] # S[2]
    /\ A[2] = action

\* on_step_end(t) of the given class was the last hook interact called; the buffers
\* still hold the transition: S[t], A[t], R[t], S[t + 1], A[t + 1].
StepEnded(class) ==
    /\ hook.name = "on_step_end" /\ variant = class
    /\ pc \in {"step", "episode_end"}

\* new = old + al * (target - old)
MovedTowards(new, old, target, al) ==
    FloatSub(new, old) = FloatMul(al, FloatSub(target, old))

\* Every entry of Q but the one at key is as before the last hook.
OnlyChangedAt(key) == \A other \in Keys \ {key} : Q[other] = hook.pre.Q[other]

\* C12: SARSAAgent.on_step_end(t) moves Q[(S[t], A[t])] by alpha times
\* (R[t] + gamma * Q[(S[t+1], A[t+1])] - old value), A[t+1] being the action act
\* chose for S[t+1], and changes no other entry.
C12_SarsaBootstrapsFromChosenAction ==
    StepEnded("SARSAAgent") =>
        LET tt == hook.arg
            key == <<S[tt + 1], A[tt + 1]>>
            old == hook.pre.Q
        IN  /\ S[tt + 2] = hashable(state) /\ A[tt + 2] = action
            /\ MovedTowards(Q[key], old[key],
                            FloatAdd(R[tt + 1],
                                     FloatMul(gamma, old[<<hashable(state), action>>])),
                            alpha)
            /\ OnlyChangedAt(key)

\* C12 witness: SARSA bootstrapped from an explored action whose value is below the
\* best value of the next state.
C12_Witness ==
    /\ StepEnded("SARSAAgent")
    /\ hook.pre.Q[<<hashable(state), action>>] # Zero
    /\ hook.pre.Q[<<hashable(state), action>>] # max_Q_at(hook.pre.Q, hashable(state), n)
    /\ Q # hook.pre.Q

\* C13: QAgent.on_step_end(t) moves Q[(S[t], A[t])] by alpha times
\* (R[t] + gamma * the largest of the n values Q[(S[t+1], a')] - old value), whatever
\* action A[t+1] was chosen, and changes no other entry.
C13_QLearningBootstrapsFromMaximum ==
    StepEnded("QAgent") =>
        LET tt == hook.arg
            key == <<S[tt + 1], A[tt + 1]>>
            old == hook.pre.Q
        IN  /\ \E best \in 0..(n - 1) :
                  /\ \A a \in 0..(n - 1) :
                        FloatLeq(old[<<S[tt + 2], a>>], old[<<S[tt + 2], best>>])
                  /\ MovedTowards(Q[key], old[key],
                                  FloatAdd(R[tt + 1],
                                           FloatMul(gamma, old[<<S[tt + 2], best>>])),
                                  alpha)
            /\ OnlyChangedAt(key)

\* C13 witness: Q-learning processed a step whose chosen next action is not a best
\* action of the next state.
C13_Witness ==
    /\ StepEnded("QAgent")
    /\ \E a \in 0..(n - 1) :
          /\ hook.pre.Q[<<hashable(state), action>>] # hook.pre.Q[<<hashable(state), a>>]
          /\ FloatLeq(hook.pre.Q[<<hashable(state), action>>],
                      hook.pre.Q[<<hashable(state), a>>])
    /\ Q # hook.pre.Q

\* The largest of the values Qt holds for the actions of state s.
BestValueAt(Qt, s) ==
    LET best == CHOOSE b \in 0..(n - 1) :
                    \A a \in 0..(n - 1) : FloatLeq(Qt[<<s, a>>], Qt[<<s, b>>])
    IN  Qt[<<s, best>>]

\* The table after the transition (key, r, s_next) has been learnt from `times` times.
RECURSIVE Replayed(_, _, _, _, _)
Replayed(Qt, key, r, s_next, times) ==
    IF times = 0
    THEN Qt
    ELSE LET target == FloatAdd(r, FloatMul(gamma, BestValueAt(Qt, s_next)))
             moved == FloatAdd(Qt[key], FloatMul(alpha, FloatSub(target, Qt[key])))
         IN  Replayed([Qt EXCEPT ![key] = moved], key, r, s_next, times - 1)

\* C14: after the first transition DynaQAgent.on_step_end processes following
\* construction or reset, the model holds exactly the entry
\* (S[0], A[0]) -> (R[0], S[1]), and each of the N planning updates of that call was
\* applied to that key with that reward and next state.
C14_FirstPlanningReplaysOnlyEntry ==
    (StepEnded("DynaQAgent") /\ hook.arg = 0) =>
        LET key == <<S[1], A[1]>>
        IN  /\ DOMAIN model = {key}
            /\ model[key] = <<R[1], S[2]>>
            /\ Q = Replayed(hook.pre.Q, key, R[1], S[2], 1 + num_planning_steps)

\* C14 witness: the first transition of a second episode, after reset, with planning
\* steps, a learnt table and a next state other than the state of the step.
C14_Witness ==
    /\ StepEnded("DynaQAgent") /\ hook.arg = 0
    /\ episodes_run = 2
    /\ num_planning_steps >= 1
    /\ hook.pre.Q # ZeroQ
    /\ S[2] # S[1]

\* C15: Q and the visit counts change only in a step that calls on_step_end or
\* on_episode_end: act, reset (at the start of an episode, so between the episodes of
\* one interact call) and visualize_episode leave every entry as it is.
C15_TablesChangeOnlyInHooks ==
    [][(Q' # Q \/ state_action_count' # state_action_count) =>
          \/ /\ pc = "step" /\ hook'.name = "on_step_end"
             /\ Len(step_end_calls') = Len(step_end_calls) + 1
          \/ /\ pc = "episode_end" /\ hook'.name = "on_episode_end"
             /\ Len(episode_end_calls') = Len(episode_end_calls) + 1]_vars

\* C15 witness: visualize_episode has reset the agent and run a step on an agent
\* whose table holds learnt values.
C15_Witness ==
    /\ Q # ZeroQ
    /\ pc = "visualize_returned" /\ steps >= 1

\* C16 as stated: while agent.learning is false, interact calls neither on_step_end
\* nor on_episode_end, and no Q value and no visit count changes during the call.
C16_NoHooksWhenNotLearning ==
    (~learning /\ pc \in {"step", "episode_end", "episode_start", "interact_returned"})
        => /\ hook.name \notin {"on_step_end", "on_episode_end"}
           /\ step_end_calls = <<>>
           /\ episode_end_calls = <<>>

\* on_episode_end was the last method interact called on the agent.
EpisodeEndCalled == hook.name = "on_episode_end" /\ pc \in {"episode_start", "interact_returned", "raised"}

\* C17: MCAgent.on_episode_end raises when len(S), len(A), len(R) are not all equal
\* and then leaves Q, the visit counts, epsilon and the buffers as they were; interact
\* does not catch the error: it stops there, before the next episode or its return.
C17_MismatchRaisesAndChangesNothing ==
    (EpisodeEndCalled /\ variant = "MCAgent") =>
        LET p == hook.pre
            mismatch == ~(Len(p.S) = Len(p.A) /\ Len(p.A) = Len(p.R))
        IN  /\ hook.raised <=> mismatch
            /\ mismatch =>
                  /\ Q = p.Q /\ state_action_count = p.state_action_count
                  /\ epsilon = p.epsilon
                  /\ S = p.S /\ A = p.A /\ R = p.R
                  /\ pc = "raised"
                  /\ k = hook.arg
                  /\ ~ENABLED Next

\* C17 witness: an episode of a Monte Carlo agent ended on the step cap and
\* on_episode_end raised.
C17_Witness ==
    /\ EpisodeEndCalled /\ variant = "MCAgent"
    /\ hook.raised
    /\ Len(S) = Len(R) + 1 /\ Len(S) = Len(A)
    /\ pc = "raised"

\* An episode of interact takes at most max_episode_steps steps, none after the step
\* that reported done, and is the only episode under way.
EpisodeBounded ==
    /\ pc \in {"step", "episode_end"} =>
          /\ steps <= max_episode_steps
          /\ Len(raw_rewards) = k + 1
          /\ Len(raw_rewards[k + 1]) = steps
          /\ k < num_episodes
    /\ pc = "step" => (~done /\ steps < max_episode_steps)
    /\ (pc = "episode_end" /\ ~done) => steps = max_episode_steps

\* C19 as stated: every episode of interact takes at most max_episode_steps steps and
\* stops at the first step that reports done, the episodes run one after another,
\* and an interact call that has stopped has returned after num_episodes episodes.
C19_InteractRunsAllEpisodes ==
    /\ EpisodeBounded
    /\ pc \in {"interact_returned", "raised"} =>
          /\ pc = "interact_returned"
          /\ k = num_episodes
          /\ Len(raw_rewards) = num_episodes

\* C20: visualize_episode(m) sets learning to False, steps the environment until the
\* first step that reports done or until m steps were taken, and renders once for
\* the initial state and once after each step: steps + 1 times.
C20_VisualizeRendersEveryStep ==
    /\ pc \in {"visualize", "visualize_returned"} =>
          /\ ~learning
          /\ renders = steps + 1
          /\ steps = t /\ act_calls = steps
          /\ steps <= max_num_steps
    /\ (pc = "visualize" /\ done) => ~ENABLED visualize_step
    /\ (pc = "visualize" /\ ~done /\ steps < max_num_steps) => ~ENABLED visualize_return
    /\ pc = "visualize_returned" => (done \/ steps = max_num_steps)

\* C20 witness: visualize_episode(2) has returned after one step, which reported
\* done, and two renders.
C20_Witness ==
    /\ pc = "visualize_returned"
    /\ max_num_steps = 2 /\ steps = 1 /\ done
    /\ renders = 2

\* C6 as stated: at the moment on_episode_end is called by interact,
\* len(S) = len(A) = len(R), whether the environment reported done or
\* max_episode_steps steps were taken.
C6_BuffersAlignedAtEpisodeEnd ==
    AtEpisodeEnd => (Len(S) = Len(A) /\ Len(A) = Len(R))

\* The discounted return of the rewards of one episode, by Horner's rule:
\* r1 + gamma * (r2 + gamma * (r3 + ...)).
RECURSIVE raw_return(_, _)
raw_return(rewards, ga) ==
    IF rewards = <<>>
    THEN Zero
    ELSE FloatAdd(rewards[1], FloatMul(ga, raw_return(Tail(rewards), ga)))

\* C7: interact(n) returns exactly n values, and the k-th of them (0-based) times
\* k + 1 is the sum of the raw discounted returns of the episodes 0..k of that call,
\* each computed from the rewards env.step handed out in that episode.
C7_RunningAverageOfRawReturns ==
    pc = "interact_returned" =>
        /\ Len(avg_returns) = num_episodes
        /\ Len(raw_rewards) = num_episodes
        /\ \A i \in 1..num_episodes :
              FloatMul(avg_returns[i], FloatOf(i))
                = FloatSum([j \in 1..i |-> raw_return(raw_rewards[j], gamma)])

\* C7 witness: an interact call has returned the running averages of
\* two episodes with different raw returns.
C7_Witness ==
    /\ pc = "interact_returned"
    /\ num_episodes = 2
    /\ Len(avg_returns) = 2
    /\ raw_return(raw_rewards[1], gamma) # raw_return(raw_rewards[2], gamma)
    /\ avg_returns[2] # raw_return(raw_rewards[2], gamma)

-----------------------------------------------------------------------------
(* SpecReturns: the two functions of returns.py called directly, in either  *)
(* order, on one reward list and one discount factor                        *)

\* an agent of the given class before its first episode, and a driver that has not run;
\* neither is involved in a direct call of a module-level function
constructed(var) ==
    /\ variant = var
    /\ learning = FALSE
    /\ alpha = Half /\ gamma = Half /\ epsilon = Half
    /\ n = MaxActions
    /\ max_episode_steps = MaxEpisodeSteps
    /\ num_planning_steps = 0
    /\ Q = ZeroQ
    /\ state_action_count = ZeroCount
    /\ S = <<>> /\ A = <<>> /\ R = <<>>
    /\ model = EmptyModel
    /\ act_call = NoCall
    /\ hook = NoHook
    /\ pc = "caller"
    /\ driver_idle

not_involved == constructed("RandomAgent")

RewardLists ==
    UNION {[1..len -> Rewards \cup {Zero}] : len \in 0..MaxBufferLen}
DiscountFactors == {Zero, Half, One}

InitReturns ==
    /\ not_involved
    /\ \E rewards \in RewardLists, ga \in DiscountFactors :
          fn_call = [name |-> "returns", called |-> {}, rewards |-> rewards, gamma |-> ga,
                     returns |-> <<>>, episodic_return |-> Zero]

\* returns = calculate_returns(rewards, gamma)
CallCalculateReturns ==
    /\ "calculate_returns" \notin fn_call.called
    /\ fn_call' = [fn_call EXCEPT
                      !.called = @ \cup {"calculate_returns"},
                      !.returns = calculate_returns(fn_call.rewards, fn_call.gamma)]
    /\ UNCHANGED <<agent_vars, act_call, hook, pc, num_episodes, k, t, state, action,
                   steps, step_end_calls, episode_end_calls, raw_rewards,
                   episodic_returns, avg_returns, renders, done, max_num_steps,
                   episodes_run, open_steps, act_calls, interact_calls>>

\* episodic_return = calculate_episodic_return(rewards, gamma)
CallCalculateEpisodicReturn ==
    /\ "calculate_episodic_return" \notin fn_call.called
    /\ fn_call' = [fn_call EXCEPT
                      !.called = @ \cup {"calculate_episodic_return"},
                      !.episodic_return =
                          calculate_episodic_return(fn_call.rewards, fn_call.gamma)]
    /\ UNCHANGED <<agent_vars, act_call, hook, pc, num_episodes, k, t, state, action,
                   steps, step_end_calls, episode_end_calls, raw_rewards,
                   episodic_returns, avg_returns, renders, done, max_num_steps,
                   episodes_run, open_steps, act_calls, interact_calls>>

NextReturns == CallCalculateReturns \/ CallCalculateEpisodicReturn

SpecReturns == InitReturns /\ [][NextReturns]_vars

ReturnsCalled == fn_call.name = "returns" /\ "calculate_returns" \in fn_call.called

\* C21: calculate_returns gives a list as long as the rewards whose element i
\* is the sum over l = 0 .. T-1-i of gamma^l * rewards[i+l]; no rewards give
\* the empty list.
C21_ReturnsAreDiscountedSums ==
    ReturnsCalled =>
        LET rewards == fn_call.rewards
            T == Len(rewards)
        IN  /\ Len(fn_call.returns) = T
            /\ (T = 0 => fn_call.returns = <<>>)
            /\ \A i \in 0..(T - 1) :
                  fn_call.returns[i + 1] =
                      FloatSum([l \in 1..(T - i) |->
                                   FloatMul(FloatPow(fn_call.gamma, l - 1), rewards[i + l])])

C21_Witness ==
    /\ ReturnsCalled
    /\ Len(fn_call.rewards) = 3
    /\ fn_call.gamma = Half
    /\ fn_call.returns[1] # fn_call.returns[2]
    /\ fn_call.returns[2] # fn_call.rewards[2]

\* C22: the returns obey the backward recurrence: the last return is the last
\* reward and every earlier return is its reward plus gamma times the next
\* return; with gamma = 0 the returns are the rewards.
C22_ReturnsObeyBackwardRecurrence ==
    ReturnsCalled =>
        LET rewards == fn_call.rewards
            returns == fn_call.returns
            T == Len(rewards)
        IN  /\ T > 0 => returns[T] = rewards[T]
            /\ \A i \in 1..(T - 1) :
                  returns[i] = FloatAdd(rewards[i], FloatMul(fn_call.gamma, returns[i + 1]))
            /\ fn_call.gamma = Zero => returns = rewards

C22_Witness ==
    /\ ReturnsCalled
    /\ Len(fn_call.rewards) = 3
    /\ fn_call.gamma = Half
    /\ fn_call.returns[3] # Zero
    /\ fn_call.returns[1] # fn_call.rewards[1]

\* C23: calculate_episodic_return equals element 0 of calculate_returns for
\* the same rewards and gamma, and is 0.0 for no rewards.
C23_EpisodicReturnIsFirstReturn ==
    (ReturnsCalled /\ "calculate_episodic_return" \in fn_call.called) =>
        IF fn_call.rewards = <<>>
        THEN fn_call.episodic_return = Zero
        ELSE fn_call.episodic_return = fn_call.returns[1]

C23_Witness ==
    /\ ReturnsCalled
    /\ "calculate_episodic_return" \in fn_call.called
    /\ Len(fn_call.rewards) = 3
    /\ fn_call.gamma = Half
    /\ fn_call.episodic_return # fn_call.rewards[1]
    /\ fn_call.episodic_return # FloatSum(fn_call.rewards)

-----------------------------------------------------------------------------
(* SpecGrid: FixedAgent.act and hashable called directly on screens of two  *)
(* by two cells that hold at most one agent and at most one goal            *)

Cells == {BLANK, AGENT, FREE, GOAL}

Count(chars, cell) ==
    Cardinality({c \in (1..Len(chars)) \X (1..Len(chars[1])) : chars[c[1]][c[2]] = cell})

\* observation["chars"] of the screens: something is drawn on each of them
Screens ==
    {chars \in [1..2 -> [1..2 -> Cells]] :
        /\ Count(chars, BLANK) < 4
        /\ Count(chars, AGENT) <= 1
        /\ Count(chars, GOAL) <= 1}

InitGrid ==
    /\ constructed("FixedAgent")
    /\ \E a \in Screens, b \in Screens :
          fn_call = [name |-> "hashable", called |-> FALSE, observations |-> <<a, b>>,
                     fingerprints |-> <<>>]

\* hashable(state) for each of the two observations
CallHashable ==
    /\ ~fn_call.called
    /\ fn_call' = [fn_call EXCEPT
                      !.called = TRUE,
                      !.fingerprints = <<hashable(fn_call.observations[1]),
                                         hashable(fn_call.observations[2])>>]
    /\ UNCHANGED <<agent_vars, act_call, hook, pc, num_episodes, k, t, state, action,
                   steps, step_end_calls, episode_end_calls, raw_rewards,
                   episodic_returns, avg_returns, renders, done, max_num_steps,
                   episodes_run, open_steps, act_calls, interact_calls>>

\* agent.act(state) of the Fixed agent on the first observation
CallFixedAgentAct ==
    /\ pc = "caller"
    /\ \E o \in act(variant, Q, fn_call.observations[1], learning, epsilon, n) :
          /\ act_call' = o
          /\ action' = o.action
          /\ pc' = IF o.raised THEN "raised" ELSE "returned"
    /\ state' = fn_call.observations[1]
    /\ act_calls' = act_calls + 1
    /\ UNCHANGED <<interact_calls, fn_call>>
    /\ UNCHANGED <<agent_vars, hook, num_episodes, k, t, steps, step_end_calls,
                   episode_end_calls, raw_rewards, episodic_returns, avg_returns,
                   renders, done, max_num_steps, episodes_run, open_steps>>

NextGrid == CallHashable \/ CallFixedAgentAct

SpecGrid == InitGrid /\ [][NextGrid]_vars

FixedActCalled == variant = "FixedAgent" /\ act_call # NoCall

AgentCells(chars) ==
    {c \in (1..Len(chars)) \X (1..Len(chars[1])) : chars[c[1]][c[2]] = AGENT}

\* C24: on a cropped grid the Fixed agent raises if no cell holds the agent
\* symbol; it returns South exactly when the agent is not in the last row and
\* the cell directly below it is FREE; in every other case it returns East.
C24_FixedAgentDecision ==
    FixedActCalled =>
        LET chars == get_crop_chars_from_observation(state)
        IN  IF AgentCells(chars) = {}
            THEN act_call.raised
            ELSE LET at == CHOOSE c \in AgentCells(chars) : TRUE
                     south == at[1] < Len(chars) /\ chars[at[1] + 1][at[2]] = FREE
                 IN  /\ ~act_call.raised
                     /\ south => act_call.action = ACTION_S
                     /\ ~south => act_call.action = ACTION_E

\* the agent stands above the goal: not the last row, and East is returned
C24_Witness ==
    /\ FixedActCalled
    /\ LET chars == get_crop_chars_from_observation(state)
       IN  /\ Len(chars) = 2
           /\ \E col \in 1..Len(chars[1]) : chars[1][col] = AGENT /\ chars[2][col] = GOAL
    /\ act_call.action = ACTION_E

\* C25: two observations with the same cropped grid have the same
\* fingerprint, and two observations whose cropped grids differ in shape or
\* in a cell have different fingerprints.
C25_FingerprintCollisionFree ==
    (fn_call.name = "hashable" /\ fn_call.called) =>
        (get_crop_chars_from_observation(fn_call.observations[1])
            = get_crop_chars_from_observation(fn_call.observations[2])
         <=> fn_call.fingerprints[1] = fn_call.fingerprints[2])

-----------------------------------------------------------------------------
(* Spec: the buffers at the step hook, and the decay of epsilon *)

\* interact_step takes the branch that ends in agent.on_step_end
InvokesOnStepEnd == pc = "step" /\ step_end_calls' # step_end_calls

\* C26: whenever interact invokes on_step_end(t), len(R) = t + 1 and
\* len(S) = len(A) = t + 2; S[t], A[t] and R[t] are the state the step started
\* from, the action passed to env.step and the reward it returned, S[t + 1]
\* and A[t + 1] the next state and the action chosen for it, so every index
\* the step-wise rules use (t and t + 1) is in range.
C26_BuffersHoldTransitionAtStepEnd ==
    [][InvokesOnStepEnd =>
          /\ hook'.name = "on_step_end" /\ hook'.arg = t
          /\ Len(hook'.pre.R) = t + 1
          /\ Len(hook'.pre.S) = t + 2 /\ Len(hook'.pre.A) = t + 2
          /\ hook'.pre.S[t + 1] = hashable(state)
          /\ hook'.pre.A[t + 1] = action
          /\ hook'.pre.R[t + 1] = raw_rewards'[Len(raw_rewards')][t + 1]
          /\ hook'.pre.S[t + 2] = hashable(state')
          /\ hook'.pre.A[t + 2] = action'
          /\ S' = hook'.pre.S /\ A' = hook'.pre.A /\ R' = hook'.pre.R]_vars

\* C26 witness: on_step_end(1) of the second episode of a SARSA agent, after a
\* step that changed the observation
C26_Witness ==
    /\ StepEnded("SARSAAgent")
    /\ hook.arg = 1 /\ k = 1
    /\ Len(hook.pre.S) = 3 /\ Len(hook.pre.R) = 2
    /\ hook.pre.S[2] # hook.pre.S[3]

-----------------------------------------------------------------------------
(* SpecAgent: the order of the three parts of DynaQAgent.on_step_end *)

\* The tables that `left` planning updates can leave, each replaying once the entry
\* the model m holds for one of its keys.
RECURSIVE PlannedTables(_, _, _)
PlannedTables(Qt, m, left) ==
    IF left = 0
    THEN {Qt}
    ELSE UNION {PlannedTables(Replayed(Qt, x, m[x][1], m[x][2], 1), m, left - 1) :
                   x \in DOMAIN m}

DynaStepEnded == hook.name = "on_step_end" /\ variant = "DynaQAgent"

\* C27: DynaQAgent.on_step_end(t) applies the Q-learning update of the real
\* transition, sets model[(S[t], A[t])] to (R[t], S[t+1]) in place of any
\* earlier value and leaves the other model entries alone, and runs the
\* planning updates after both: they replay entries of the model as stored,
\* leave the model as stored and change Q only at keys of the model.
C27_DynaQUpdateStorePlan ==
    DynaStepEnded =>
        LET tt == hook.arg
            key == <<S[tt + 1], A[tt + 1]>>
            learnt == Replayed(hook.pre.Q, key, R[tt + 1], S[tt + 2], 1)
        IN  /\ DOMAIN model = DOMAIN hook.pre.model \cup {key}
            /\ model[key] = <<R[tt + 1], S[tt + 2]>>
            /\ \A x \in DOMAIN hook.pre.model \ {key} : model[x] = hook.pre.model[x]
            /\ Q \in PlannedTables(learnt, model, num_planning_steps)
            /\ \A x \in Keys \ DOMAIN model : Q[x] = hook.pre.Q[x]

\* C27 witness: the second step of an episode revisits the key of the first with
\* another outcome: the model held an entry for the key before the call and holds
\* another now, and planning moved the table beyond the update of the real step.
C27_Witness ==
    /\ DynaStepEnded
    /\ hook.arg = 1
    /\ num_planning_steps >= 1
    /\ <<S[2], A[2]>> \in DOMAIN hook.pre.model
    /\ hook.pre.model[<<S[2], A[2]>>] # model[<<S[2], A[2]>>]
    /\ Q # Replayed(hook.pre.Q, <<S[2], A[2]>>, R[2], S[3], 1)

-----------------------------------------------------------------------------
(* Spec: the decay of epsilon *)

\* the last interact call has ended, by returning or by an exception
InteractEnded == pc \in {"interact_returned", "raised"} /\ interact_calls >= 1

\* epsilon of Init times 0.5^j
HalvedTimes(j) == FloatMul(Half, FloatPow(Half, j))

\* C28: MCAgent.on_episode_end(k) halves epsilon exactly when k % 9999999 = 0,
\* so in episode 0 of every interact call and in no other episode; nothing
\* else changes epsilon; hence after j interact calls of at least one episode
\* each epsilon is its initial value times 0.5^j.
C28_EpsilonHalvedOncePerInteractCall ==
    /\ (hook.name = "on_episode_end" /\ variant = "MCAgent") =>
          epsilon = IF hook.arg % DecayPeriod = 0
                    THEN FloatMul(hook.pre.epsilon, Half)
                    ELSE hook.pre.epsilon
    /\ (variant = "MCAgent" /\ InteractEnded) => epsilon = HalvedTimes(interact_calls)
    /\ variant # "MCAgent" => epsilon = Half

\* What holds of epsilon in every state: it has been halved once for each
\* on_episode_end(0) that returned, and by nothing else.
EpsilonHalvedPerReturnedEpisodeZero ==
    LET in_episode_zero ==
            pc \in {"episode_start", "step", "episode_end", "raised"} /\ k = 0
    IN  IF variant = "MCAgent"
        THEN epsilon = HalvedTimes(IF in_episode_zero
                                   THEN interact_calls - 1 ELSE interact_calls)
        ELSE epsilon = Half

====
